---- MODULE Spec2Model ----
(***************************************************************************)
(* Crumble Bakery landing page: the email-capture pipeline of              *)
(* js/form-validation.js (LocalStorageManager, EmailSubmissionHandler).    *)
(*                                                                         *)
(* Strings are sequences of one-character strings.  Time is Date.now() in  *)
(* milliseconds.  A localStorage item is NoItem (getItem returns null),    *)
(* Garbage (a string JSON.parse rejects) or Json(v) (JSON.stringify(v)).   *)
(* The fault set F of an operation names the localStorage methods that     *)
(* throw while it runs.                                                    *)
(***************************************************************************)
EXTENDS Integers, Sequences, FiniteSets, TLC

VARIABLES
  now,          \* Date.now()
  rate,         \* localStorage item under rateLimitKey
  subs,         \* localStorage item under storageKey
  pending,      \* submitEmail calls suspended on the submitDelay timer (FIFO)
  last,         \* the operation that ran last and what it returned / threw
  attemptLog,   \* history: times of the last three attempts written by recordAttempt
  form,         \* EmailFormHandler: its fields, the form's elements and its timers
  page          \* LoadingManager, FloatingElementsManager and the document they run in

vars == <<now, rate, subs, pending, last, attemptLog, form, page>>

----------------------------------------------------------------------------
\* Bounds of the model

\* the clock runs over MaxWindows + 1 rate-limit windows
MaxWindows == 1
\* cap on the stored attempts counter
MaxAttempts == 4
\* cap on the length of the stored submissions array
MaxSubs == 2
\* cap on the number of submitEmail calls suspended at once
MaxPending == 2
\* the domain of a validate input has up to MaxLabels labels
MaxLabels == 2
\* cap on the number of events the user raises on the form
MaxEvents == 4
\* cap on the number of visibilitychange and resize events
MaxPageEvents == 3
\* cap on the number of requestAnimationFrame calls
MaxFrames == 4

----------------------------------------------------------------------------
\* Program constants

\* isRateLimited: const fiveMinutes = 5 * 60 * 1000
fiveMinutes == 5 * 60 * 1000
\* isRateLimited: return attempts >= 3
attemptLimit == 3
\* FORM_CONFIG.TIMING.submitDelay
submitDelay == 1500
\* FORM_CONFIG.TIMING.successDisplayTime, errorDisplayTime
successDisplayTime == 5000
errorDisplayTime == 4000
\* FORM_CONFIG.VALIDATION.debounceDelay
debounceDelay == 300
\* the paste listener: setTimeout(() => this.handleInputChange(), 10)
pasteDelay == 10
\* CONFIG.LOADING_DURATION
LOADING_DURATION == 2000
\* hideLoading: the loading screen is removed 500 ms after it is hidden
removeDelay == 500
\* the resize listener: debounce(..., 250)
resizeDelay == 250

\* Messages thrown / returned by submitEmail (FORM_CONFIG.MESSAGES)
RATE_LIMITED == "rateLimited"
ALREADY_SUBSCRIBED == "alreadySubscribed"
NETWORK_ERROR == "networkError"
SUCCESS == "success"
\* submitEmail has reached its await and is suspended
SUSPENDED == "suspended"
\* a boolean return value, as recorded in last.ret
Bool(b) == IF b THEN "true" ELSE "false"

----------------------------------------------------------------------------
\* Inputs

\* "a@b.co", its upper-case variant "A@B.co", and "c@d.co"
EmailLower == <<"a", "@", "b", ".", "c", "o">>
EmailUpper == <<"A", "@", "B", ".", "c", "o">>
EmailOther == <<"c", "@", "d", ".", "c", "o">>
Emails == {EmailLower, EmailUpper, EmailOther}

\* " a@b.co " and " A@B.co ": the same with whitespace around
EmailPadded == <<" ">> \o EmailLower \o <<" ">>
EmailUpperPadded == <<" ">> \o EmailUpper \o <<" ">>
\* the strings wasEmailSubmitted is asked about
LookupInputs == Emails \cup {EmailPadded, EmailUpperPadded}

\* The strings validate is given: whitespace or none around a local part,
\* no, one or two "@", and a domain of up to MaxLabels labels joined by "."
repeat(c, n) == [i \in 1..n |-> c]
LocalParts ==
  { <<>>,
    <<"a">>,
    <<"a", "a", "a", "a">>,
    <<".", "a", "a", "a">>,
    <<"a", "a", "a", ".">>,
    <<"a", ".", ".", "a">>,
    <<"a", ".", "a", "a">>,
    <<"a", "_", "a", "a">>,
    <<"a", ",", "a", "a">>,
    <<"a", " ", "a", "a">>,
    repeat("a", 64),
    repeat("a", 65) }
AtSigns == { <<>>, <<"@">>, <<"@", "@">> }
Labels ==
  { <<>>,
    <<"a">>,
    <<"a", "a">>,
    <<"a", "1">>,
    <<"-", "a">>,
    <<"a", "-">>,
    <<"a", "-", "a">>,
    repeat("a", 63),
    repeat("a", 64),
    repeat("a", 188) }
RECURSIVE DomainsOf(_)
DomainsOf(k) ==
  IF k = 1
    THEN Labels
    ELSE {d \o <<".">> \o l : d \in DomainsOf(k - 1), l \in Labels}
Domains == UNION {DomainsOf(k) : k \in 1..MaxLabels}
Paddings == { <<>>, <<" ">> }
ValidateInputs ==
  {p \o local \o at \o domain \o p :
     p \in Paddings, local \in LocalParts, at \in AtSigns, domain \in Domains}

\* What the user types into the email input: " a@b.co ", "a@b" and nothing
ShortValue == <<"a", "@", "b">>
TypedValues == {EmailPadded, ShortValue, <<>>}

\* Values Date.now() takes: the start of each window and one submitDelay later
TimeOffsets == {0, submitDelay}
Times == {w * fiveMinutes + o : w \in 0..MaxWindows, o \in TimeOffsets}

\* localStorage methods that can throw; the fault set F of an operation names
\* the methods that throw while it runs
StorageMethods == {"getItem", "setItem", "removeItem"}
Faults == SUBSET StorageMethods

----------------------------------------------------------------------------
\* localStorage items and JSON

NoItem == [kind |-> "absent"]
Garbage == [kind |-> "garbage"]
Json(v) == [kind |-> "json", val |-> v]
\* JSON.stringify
stringify(v) == Json(v)
\* JSON.parse throws on Garbage
parseThrows(item) == item.kind = "garbage"
parse(item) == item.val
\* !item : getItem returned null
isNull(item) == item.kind = "absent"
IsRec(item) == item.kind = "json"

\* String.prototype.toLowerCase, per character
toLowerCaseChar(c) ==
  CASE c = "A" -> "a"
    [] c = "B" -> "b"
    [] c = "C" -> "c"
    [] c = "D" -> "d"
    [] c = "O" -> "o"
    [] OTHER -> c
toLowerCase(s) == [i \in 1..Len(s) |-> toLowerCaseChar(s[i])]

\* String.prototype.trim
isWhitespace(c) == c = " "
RECURSIVE trimStart(_)
trimStart(s) ==
  IF s # <<>> /\ isWhitespace(Head(s)) THEN trimStart(Tail(s)) ELSE s
RECURSIVE trimEnd(_)
trimEnd(s) ==
  IF s # <<>> /\ isWhitespace(s[Len(s)]) THEN trimEnd(SubSeq(s, 1, Len(s) - 1)) ELSE s
trim(s) == trimEnd(trimStart(s))

\* Array.prototype.includes
includes(arr, x) == \E i \in 1..Len(arr) : arr[i] = x

----------------------------------------------------------------------------
\* LocalStorageManager

\* getSubmissions(): stored ? JSON.parse(stored) : [], and [] on any exception
getSubmissions(item, getThrows) ==
  IF getThrows \/ isNull(item) \/ parseThrows(item) THEN <<>> ELSE parse(item)

\* wasEmailSubmitted that looks the email up as it was given
wasEmailSubmitted_noLowerCase(item, email, F) ==
  includes(getSubmissions(item, "getItem" \in F), email)

\* wasEmailSubmitted that trims the email as well
wasEmailSubmitted_trim(item, email, F) ==
  includes(getSubmissions(item, "getItem" \in F), toLowerCase(trim(email)))

\* wasEmailSubmitted(email)
wasEmailSubmitted(item, email, F) ==
  includes(getSubmissions(item, "getItem" \in F), toLowerCase(email))

\* storeSubmission that pushes the email as it was given
storeSubmission_noLowerCase(item, email, F) ==
  LET submissions == getSubmissions(item, "getItem" \in F)
  IN  IF "setItem" \in F
        THEN item
        ELSE stringify(Append(submissions, email))

\* storeSubmission that pushes the email only when it is not stored yet
storeSubmission_skipDuplicate(item, email, F) ==
  LET submissions == getSubmissions(item, "getItem" \in F)
  IN  IF "setItem" \in F \/ includes(submissions, toLowerCase(email))
        THEN item
        ELSE stringify(Append(submissions, toLowerCase(email)))

\* storeSubmission(email): the item under storageKey afterwards
storeSubmission(item, email, F) ==
  LET submissions == getSubmissions(item, "getItem" \in F)
  IN  IF "setItem" \in F
        THEN item
        ELSE stringify(Append(submissions, toLowerCase(email)))

\* the window test with >= for >
windowExpired_atLeast(nw, timestamp) == nw - timestamp >= fiveMinutes

\* now - timestamp > fiveMinutes
windowExpired(nw, timestamp) == nw - timestamp > fiveMinutes

\* the attempts test with > for >=
tooManyAttempts_above(attempts) == attempts > attemptLimit

\* attempts >= 3
tooManyAttempts(attempts) == attempts >= attemptLimit

\* isRateLimited that forgets removeItem on an expired window
isRateLimited_noRemove(item, nw, F) ==
  IF "getItem" \in F \/ isNull(item) \/ parseThrows(item)
    THEN [ret |-> FALSE, item |-> item]
    ELSE IF nw - parse(item).timestamp > fiveMinutes
           THEN [ret |-> FALSE, item |-> item]
           ELSE [ret |-> parse(item).attempts >= attemptLimit, item |-> item]

\* isRateLimited(): what it returns and the item under rateLimitKey afterwards
isRateLimited(item, nw, F) ==
  IF "getItem" \in F \/ isNull(item) \/ parseThrows(item)
    THEN [ret |-> FALSE, item |-> item]
    ELSE IF windowExpired(nw, parse(item).timestamp)
           THEN [ret |-> FALSE,
                 item |-> IF "removeItem" \in F THEN item ELSE NoItem]
           ELSE [ret |-> tooManyAttempts(parse(item).attempts), item |-> item]

\* recordAttempt that leaves data.timestamp as it was
recordAttempt_keepWindow(item, nw, F) ==
  IF "getItem" \in F
    THEN item
    ELSE IF isNull(item)
           THEN IF "setItem" \in F
                  THEN item
                  ELSE stringify([timestamp |-> nw, attempts |-> 1])
           ELSE IF parseThrows(item) \/ "setItem" \in F
                  THEN item
                  ELSE stringify([timestamp |-> parse(item).timestamp,
                                  attempts |-> parse(item).attempts + 1])

\* recordAttempt that starts a new count when the stored window has expired
recordAttempt_resetOnExpiry(item, nw, F) ==
  IF "getItem" \in F
    THEN item
    ELSE IF isNull(item)
           THEN IF "setItem" \in F
                  THEN item
                  ELSE stringify([timestamp |-> nw, attempts |-> 1])
           ELSE IF parseThrows(item) \/ "setItem" \in F
                  THEN item
                  ELSE stringify([timestamp |-> nw,
                                  attempts |-> IF nw - parse(item).timestamp > fiveMinutes
                                                 THEN 1
                                                 ELSE parse(item).attempts + 1])

\* recordAttempt(): the item under rateLimitKey afterwards
recordAttempt(item, nw, F) ==
  IF "getItem" \in F
    THEN item
    ELSE IF isNull(item)
           THEN IF "setItem" \in F
                  THEN item
                  ELSE stringify([timestamp |-> nw, attempts |-> 1])
           ELSE IF parseThrows(item) \/ "setItem" \in F
                  THEN item
                  ELSE stringify([timestamp |-> nw,
                                  attempts |-> parse(item).attempts + 1])

----------------------------------------------------------------------------
\* EmailSubmissionHandler.submitEmail

\* submitEmail with recordAttempt moved before the rate-limit check
submitEmailSync_recordFirst(rateItem, subsItem, nw, email, F) ==
  LET recorded == recordAttempt(rateItem, nw, F)
      limited == isRateLimited(recorded, nw, F)
  IN  IF limited.ret
        THEN [outcome |-> RATE_LIMITED, rate |-> limited.item]
        ELSE [outcome |-> IF wasEmailSubmitted(subsItem, email, F)
                            THEN ALREADY_SUBSCRIBED
                            ELSE SUSPENDED,
              rate |-> limited.item]

\* submitEmail with the duplicate check moved before the rate-limit check
submitEmailSync_duplicateFirst(rateItem, subsItem, nw, email, F) ==
  LET limited == isRateLimited(rateItem, nw, F)
  IN  IF wasEmailSubmitted(subsItem, email, F)
        THEN [outcome |-> ALREADY_SUBSCRIBED, rate |-> recordAttempt(rateItem, nw, F)]
        ELSE IF limited.ret
               THEN [outcome |-> RATE_LIMITED, rate |-> limited.item]
               ELSE [outcome |-> SUSPENDED, rate |-> recordAttempt(limited.item, nw, F)]

\* submitEmail with recordAttempt moved after the duplicate check
submitEmailSync_recordAfterDuplicate(rateItem, subsItem, nw, email, F) ==
  LET limited == isRateLimited(rateItem, nw, F)
  IN  IF limited.ret
        THEN [outcome |-> RATE_LIMITED, rate |-> limited.item]
        ELSE IF wasEmailSubmitted(subsItem, email, F)
               THEN [outcome |-> ALREADY_SUBSCRIBED, rate |-> limited.item]
               ELSE [outcome |-> SUSPENDED, rate |-> recordAttempt(limited.item, nw, F)]

\* submitEmail that refreshes the stored timestamp when it rejects a call as
\* rate-limited
submitEmailSync_refreshOnReject(rateItem, subsItem, nw, email, F) ==
  LET limited == isRateLimited(rateItem, nw, F)
  IN  IF limited.ret
        THEN [outcome |-> RATE_LIMITED,
              rate |-> stringify([timestamp |-> nw,
                                  attempts |-> parse(limited.item).attempts])]
        ELSE [outcome |-> IF wasEmailSubmitted(subsItem, email, F)
                            THEN ALREADY_SUBSCRIBED
                            ELSE SUSPENDED,
              rate |-> recordAttempt(limited.item, nw, F)]

\* The part of submitEmail before its await: what it throws (or SUSPENDED)
\* and the item under rateLimitKey afterwards
submitEmailSync(rateItem, subsItem, nw, email, F) ==
  LET limited == isRateLimited(rateItem, nw, F)
  IN  IF limited.ret
        THEN [outcome |-> RATE_LIMITED, rate |-> limited.item]
        ELSE [outcome |-> IF wasEmailSubmitted(subsItem, email, F)
                            THEN ALREADY_SUBSCRIBED
                            ELSE SUSPENDED,
              rate |-> recordAttempt(limited.item, nw, F)]

\* submitEmail that reports a failed store write as a network error
submitEmailResume_surfaceWriteFailure(subsItem, email, random, F) ==
  IF random \/ "setItem" \in F
    THEN [outcome |-> NETWORK_ERROR, subs |-> subsItem]
    ELSE [outcome |-> SUCCESS, subs |-> storeSubmission(subsItem, email, F)]

\* submitEmail that stores the email before it takes the random failure
submitEmailResume_storeFirst(subsItem, email, random, F) ==
  [outcome |-> IF random THEN NETWORK_ERROR ELSE SUCCESS,
   subs |-> storeSubmission(subsItem, email, F)]

\* The part of submitEmail after its await: what it returns or throws and
\* the item under storageKey afterwards.  random is Math.random() < 0.05
submitEmailResume(subsItem, email, random, F) ==
  IF random
    THEN [outcome |-> NETWORK_ERROR, subs |-> subsItem]
    ELSE [outcome |-> SUCCESS, subs |-> storeSubmission(subsItem, email, F)]

----------------------------------------------------------------------------
\* Exceptions: the same methods with their try blocks and catch clauses
\* spelled out.  A block completes by returning a value or by throwing.

Return(v) == [threw |-> FALSE, val |-> v]
Throw == [threw |-> TRUE]

\* try { block } with no catch clause around it
tryCatch_uncaught(block, v) == block

\* try { block } catch (error) { return v }
tryCatch(block, v) == IF block.threw THEN Return(v) ELSE block

\* getSubmissions(), lines 253-258
tryGetSubmissions(item, F) ==
  tryCatch(IF "getItem" \in F
             THEN Throw
             ELSE IF isNull(item)
                    THEN Return(<<>>)
                    ELSE IF parseThrows(item) THEN Throw ELSE Return(parse(item)),
           <<>>)

\* wasEmailSubmitted(email), lines 225-231
tryWasEmailSubmitted(item, email, F) ==
  tryCatch(LET submissions == tryGetSubmissions(item, F)
           IN  IF submissions.threw
                 THEN Throw
                 ELSE Return(includes(submissions.val, toLowerCase(email))),
           FALSE)

\* storeSubmission(email), lines 239-245; val is the item under storageKey
\* afterwards
tryStoreSubmission(item, email, F) ==
  tryCatch(LET submissions == tryGetSubmissions(item, F)
           IN  IF submissions.threw \/ "setItem" \in F
                 THEN Throw
                 ELSE Return(stringify(Append(submissions.val, toLowerCase(email)))),
           item)

\* isRateLimited(), lines 266-284; val is what it returns and the item under
\* rateLimitKey afterwards
tryIsRateLimited(item, nw, F) ==
  tryCatch(IF "getItem" \in F
             THEN Throw
             ELSE IF isNull(item)
                    THEN Return([ret |-> FALSE, item |-> item])
                    ELSE IF parseThrows(item)
                           THEN Throw
                           ELSE IF windowExpired(nw, parse(item).timestamp)
                                  THEN IF "removeItem" \in F
                                         THEN Throw
                                         ELSE Return([ret |-> FALSE, item |-> NoItem])
                                  ELSE Return([ret |-> tooManyAttempts(parse(item).attempts),
                                               item |-> item]),
           [ret |-> FALSE, item |-> item])

\* recordAttempt(), lines 291-308; val is the item under rateLimitKey
\* afterwards
tryRecordAttempt(item, nw, F) ==
  tryCatch(IF "getItem" \in F
             THEN Throw
             ELSE IF isNull(item)
                    THEN IF "setItem" \in F
                           THEN Throw
                           ELSE Return(stringify([timestamp |-> nw, attempts |-> 1]))
                    ELSE IF parseThrows(item) \/ "setItem" \in F
                           THEN Throw
                           ELSE Return(stringify([timestamp |-> nw,
                                                  attempts |-> parse(item).attempts + 1])),
           item)

\* submitEmail rejects with an exception of a localStorage method
STORAGE_ERROR == "storageError"

\* submitEmail before its await, lines 328-336: an exception of a
\* LocalStorageManager method propagates
trySubmitEmailSync(rateItem, subsItem, nw, email, F) ==
  LET limited == tryIsRateLimited(rateItem, nw, F)
  IN  IF limited.threw
        THEN STORAGE_ERROR
        ELSE IF limited.val.ret
               THEN RATE_LIMITED
               ELSE IF tryRecordAttempt(limited.val.item, nw, F).threw
                      THEN STORAGE_ERROR
                      ELSE LET duplicate == tryWasEmailSubmitted(subsItem, email, F)
                           IN  IF duplicate.threw
                                 THEN STORAGE_ERROR
                                 ELSE IF duplicate.val
                                        THEN ALREADY_SUBSCRIBED
                                        ELSE SUSPENDED

\* submitEmail after its await, lines 344-361
trySubmitEmailResume(subsItem, email, random, F) ==
  IF random
    THEN NETWORK_ERROR
    ELSE IF tryStoreSubmission(subsItem, email, F).threw
           THEN STORAGE_ERROR
           ELSE SUCCESS

----------------------------------------------------------------------------
\* History

\* the last three entries of the log, with one more attempt when one was written
logAttempt(log, before, after, nw) ==
  IF after = before
    THEN log
    ELSE LET l == Append(log, nw)
         IN  IF Len(l) > 3 THEN Tail(l) ELSE l

attemptsOf(item) == IF IsRec(item) THEN parse(item).attempts ELSE 0
lengthOf(item) == Len(getSubmissions(item, FALSE))

----------------------------------------------------------------------------
\* EmailValidator

\* Characters: the letters and digits of the model's alphabet and the
\* punctuation the regular expressions name
Letters == {"a", "b", "c", "d", "o", "A", "B", "C", "D", "O"}
Digits == {"0", "1", "2", "3", "4", "5", "6", "7", "8", "9"}
\* [a-zA-Z]
isLetter(c) == c \in Letters
\* [a-zA-Z0-9]
isAlnum(c) == c \in Letters \cup Digits
\* [a-zA-Z0-9-]
isLabelChar(c) == isAlnum(c) \/ c = "-"
\* the character class of emailRegex before the "@": letters, digits and
\* . ! # $ % & ' * + / = ? ^ _ { | } ~ - (and the backquote, which no input
\* of the model holds)
isLocalChar(c) ==
  isAlnum(c) \/ c \in {".", "!", "#", "$", "%", "&", "'", "*", "+", "/", "=",
                       "?", "^", "_", "{", "|", "}", "~", "-"}

\* String.prototype.split(sep) for a one-character separator
RECURSIVE split(_, _)
split(s, sep) ==
  IF \A i \in 1..Len(s) : s[i] # sep
    THEN <<s>>
    ELSE LET i == CHOOSE k \in 1..Len(s) :
                    s[k] = sep /\ \A j \in 1..(k - 1) : s[j] # sep
         IN  <<SubSeq(s, 1, i - 1)>> \o split(SubSeq(s, i + 1, Len(s)), sep)

startsWith(s, c) == Len(s) > 0 /\ s[1] = c
endsWith(s, c) == Len(s) > 0 /\ s[Len(s)] = c
\* local.includes('..')
includesDotDot(s) == \E i \in 1..(Len(s) - 1) : s[i] = "." /\ s[i + 1] = "."

\* FORM_CONFIG.VALIDATION
minLength == 5
maxLength == 254

\* [a-zA-Z0-9](?:[a-zA-Z0-9-]{0,61}[a-zA-Z0-9])?
regexLabel(l) ==
  /\ Len(l) >= 1
  /\ Len(l) <= 63
  /\ isAlnum(l[1])
  /\ isAlnum(l[Len(l)])
  /\ \A i \in 1..Len(l) : isLabelChar(l[i])

\* emailRegex.test(email): local characters, "@", labels separated by "."
emailRegexTest(email) ==
  \E at \in 2..Len(email) :
    /\ email[at] = "@"
    /\ \A i \in 1..(at - 1) : isLocalChar(email[i])
    /\ LET labels == split(SubSeq(email, at + 1, Len(email)), ".")
       IN  \A k \in 1..Len(labels) : regexLabel(labels[k])

\* validateLocalPart(local)
validateLocalPart(local) ==
  IF Len(local) = 0 \/ Len(local) > 64
    THEN FALSE
    ELSE ~(startsWith(local, ".") \/ endsWith(local, ".") \/ includesDotDot(local))

\* validateDomainPart without the test of the last label
validateDomainPart_anyTld(domain) ==
  IF Len(domain) = 0 \/ Len(domain) > 253
    THEN FALSE
    ELSE LET domainParts == split(domain, ".")
         IN  IF Len(domainParts) < 2
               THEN FALSE
               ELSE \A k \in 1..Len(domainParts) :
                      LET part == domainParts[k]
                      IN  /\ ~(Len(part) = 0 \/ Len(part) > 63)
                          /\ \A i \in 1..Len(part) : isLabelChar(part[i])
                          /\ ~(startsWith(part, "-") \/ endsWith(part, "-"))

\* validateDomainPart(domain)
validateDomainPart(domain) ==
  IF Len(domain) = 0 \/ Len(domain) > 253
    THEN FALSE
    ELSE LET domainParts == split(domain, ".")
         IN  IF Len(domainParts) < 2
               THEN FALSE
               ELSE /\ \A k \in 1..Len(domainParts) :
                         LET part == domainParts[k]
                         IN  /\ ~(Len(part) = 0 \/ Len(part) > 63)
                             /\ \A i \in 1..Len(part) : isLabelChar(part[i])
                             /\ ~(startsWith(part, "-") \/ endsWith(part, "-"))
                    /\ LET tld == domainParts[Len(domainParts)]
                       IN  ~(Len(tld) < 2 \/ \E i \in 1..Len(tld) : ~isLetter(tld[i]))

\* validateEmailStructure(email)
validateEmailStructure(email) ==
  IF Cardinality({i \in 1..Len(email) : email[i] = "@"}) # 1
    THEN FALSE
    ELSE LET parts == split(email, "@")
         IN  validateLocalPart(parts[1]) /\ validateDomainPart(parts[2])

\* Messages of validate (FORM_CONFIG.MESSAGES), and 'Valid email address'
REQUIRED == "required"
TOO_SHORT == "tooShort"
TOO_LONG == "tooLong"
INVALID == "invalid"
VALID == "valid"

\* validate that tests the format before the length
validate_formatFirst(email) ==
  IF trim(email) = <<>>
    THEN [isValid |-> FALSE, message |-> REQUIRED]
    ELSE LET trimmed == trim(email)
         IN  IF ~emailRegexTest(trimmed) \/ ~validateEmailStructure(trimmed)
               THEN [isValid |-> FALSE, message |-> INVALID]
               ELSE IF Len(trimmed) < minLength
                      THEN [isValid |-> FALSE, message |-> TOO_SHORT]
                      ELSE IF Len(trimmed) > maxLength
                             THEN [isValid |-> FALSE, message |-> TOO_LONG]
                             ELSE [isValid |-> TRUE, message |-> VALID]

\* validate without the emailRegex test
validate_noRegex(email) ==
  IF trim(email) = <<>>
    THEN [isValid |-> FALSE, message |-> REQUIRED]
    ELSE LET trimmed == trim(email)
         IN  IF Len(trimmed) < minLength
               THEN [isValid |-> FALSE, message |-> TOO_SHORT]
               ELSE IF Len(trimmed) > maxLength
                      THEN [isValid |-> FALSE, message |-> TOO_LONG]
                      ELSE IF ~validateEmailStructure(trimmed)
                             THEN [isValid |-> FALSE, message |-> INVALID]
                             ELSE [isValid |-> TRUE, message |-> VALID]

\* validate(email)
validate(email) ==
  IF email = <<>> \/ trim(email) = <<>>
    THEN [isValid |-> FALSE, message |-> REQUIRED]
    ELSE LET trimmed == trim(email)
         IN  IF Len(trimmed) < minLength
               THEN [isValid |-> FALSE, message |-> TOO_SHORT]
               ELSE IF Len(trimmed) > maxLength
                      THEN [isValid |-> FALSE, message |-> TOO_LONG]
                      ELSE IF ~emailRegexTest(trimmed)
                             THEN [isValid |-> FALSE, message |-> INVALID]
                             ELSE IF ~validateEmailStructure(trimmed)
                                    THEN [isValid |-> FALSE, message |-> INVALID]
                                    ELSE [isValid |-> TRUE, message |-> VALID]

----------------------------------------------------------------------------
\* EmailFormHandler
\*
\* form holds isSubmitting, debounceTimeout, the value of the email input,
\* what the error and success elements show, and the timers the handler has
\* set and not yet cleared or run, in the order they were set.  It also
\* holds history: events (user events so far), event (the last one), calls (submitEmail calls made
\* by the last user event), errorId / successId (how many times an error /
\* the success message was put on display; a hide timer is tagged with the
\* count it was started at), lastInputAt and lastChangeAt (times of the last
\* input event and of the last handleInputChange call) and debounced (the
\* debounce callback has run since the last handleInputChange call).
\* The aria-live announcements, the CSS classes and the focus are not held.

FormInit ==
  [value |-> <<>>,
   isSubmitting |-> FALSE,
   debounceTimeout |-> 0,
   timers |-> <<>>,
   nextTimerId |-> 1,
   errorShown |-> FALSE,
   errorText |-> "",
   successShown |-> FALSE,
   events |-> 0,
   event |-> "none",
   calls |-> 0,
   errorId |-> 0,
   successId |-> 0,
   lastInputAt |-> -1,
   lastChangeAt |-> -1,
   debounced |-> FALSE]

\* setTimeout(callback, delay): the new timer gets the next id
setTimeout(f, kind, due, tag) ==
  [f EXCEPT !.timers = Append(@, [kind |-> kind, due |-> due,
                                  id |-> f.nextTimerId, tag |-> tag]),
            !.nextTimerId = @ + 1]

\* clearTimeout(id)
clearTimeout(f, id) ==
  [f EXCEPT !.timers = SelectSeq(@, LAMBDA t : t.id # id)]

showError(f, message) ==
  [f EXCEPT !.errorShown = TRUE, !.errorText = message, !.errorId = @ + 1]
clearError(f) == [f EXCEPT !.errorShown = FALSE]
showSuccess(f) == [f EXCEPT !.successShown = TRUE, !.successId = @ + 1]
hideSuccess(f) == [f EXCEPT !.successShown = FALSE]
clearMessages(f) == hideSuccess(clearError(f))

\* setSubmittingState(isSubmitting); the submit button is disabled exactly
\* while isSubmitting is true
setSubmittingState(f, isSubmitting) == [f EXCEPT !.isSubmitting = isSubmitting]

\* this.validator.validate(email), tabulated over the trimmed values the
\* input can hold
validated == [email \in {trim(v) : v \in TypedValues} |-> validate(email)]

\* validateInput(email, showSuccess): the form afterwards; it returns
\* validated[email].isValid
validateInput(f, email) ==
  IF validated[email].isValid THEN clearError(f) ELSE showError(f, validated[email].message)

\* handleInputChange that does not clear the pending timer
handleInputChange_noClear(f, nw) ==
  LET g == setTimeout(f, "debounce", nw + debounceDelay, 0)
  IN  [g EXCEPT !.debounceTimeout = f.nextTimerId,
                !.lastChangeAt = nw,
                !.debounced = FALSE]

\* handleInputChange()
handleInputChange(f, nw) ==
  LET g == setTimeout(clearTimeout(f, f.debounceTimeout), "debounce", nw + debounceDelay, 0)
  IN  [g EXCEPT !.debounceTimeout = f.nextTimerId,
                !.lastChangeAt = nw,
                !.debounced = FALSE]

\* the callback of the debounce timer
debounceCallback(f) ==
  LET email == trim(f.value)
      g == IF email # <<>> THEN validateInput(f, email) ELSE clearMessages(f)
  IN  [g EXCEPT !.debounced = TRUE]

\* handleSubmissionSuccess(result)
handleSubmissionSuccess(f, nw) ==
  LET g == [clearError(showSuccess(f)) EXCEPT !.value = <<>>]
  IN  setTimeout(g, "hideSuccess", nw + successDisplayTime, g.successId)

\* handleSubmissionError(error)
handleSubmissionError(f, message, nw) ==
  LET g == hideSuccess(showError(f, message))
  IN  setTimeout(g, "clearError", nw + errorDisplayTime, g.errorId)

\* The state handleSubmit works on
World == [rate |-> rate, subs |-> subs, pending |-> pending, form |-> form, last |-> last]

\* the call submitEmail(email) inside handleSubmit, run to its await or to
\* its throw; when it throws, the catch and finally blocks of handleSubmit
\* run as microtasks, before any other event handler
callSubmitEmail(w, email, nw) ==
  LET r == submitEmailSync(w.rate, w.subs, nw, email, {})
      f == [setSubmittingState(w.form, TRUE) EXCEPT !.calls = @ + 1]
  IN  [rate |-> r.rate,
       subs |-> w.subs,
       pending |-> IF r.outcome = SUSPENDED
                     THEN Append(w.pending, [email |-> email, due |-> nw + submitDelay])
                     ELSE w.pending,
       form |-> IF r.outcome = SUSPENDED
                  THEN f
                  ELSE setSubmittingState(handleSubmissionError(f, r.outcome, nw), FALSE),
       last |-> [op |-> "submitEmail", email |-> email, ret |-> r.outcome]]

\* handleSubmit without the test of isSubmitting
handleSubmit_noGuard(w, nw) ==
  LET email == trim(w.form.value)
  IN  IF ~validated[email].isValid
        THEN [w EXCEPT !.form = validateInput(w.form, email)]
        ELSE callSubmitEmail([w EXCEPT !.form = validateInput(w.form, email)], email, nw)

\* handleSubmit without the validation
handleSubmit_noValidation(w, nw) ==
  IF w.form.isSubmitting
    THEN w
    ELSE callSubmitEmail(w, trim(w.form.value), nw)

\* handleSubmit(), up to the await of submitEmail or to its end
handleSubmit(w, nw) ==
  IF w.form.isSubmitting
    THEN w
    ELSE LET email == trim(w.form.value)
         IN  IF ~validated[email].isValid
               THEN [w EXCEPT !.form = validateInput(w.form, email)]
               ELSE callSubmitEmail([w EXCEPT !.form = validateInput(w.form, email)],
                                    email, nw)

\* handleSubmit after its await where finally runs only after a success
handleSubmitResume_noFinally(w, random, nw) ==
  LET call == Head(w.pending)
      r == submitEmailResume(w.subs, call.email, random, {})
  IN  [rate |-> w.rate,
       subs |-> r.subs,
       pending |-> Tail(w.pending),
       form |-> IF r.outcome = SUCCESS
                  THEN setSubmittingState(handleSubmissionSuccess(w.form, nw), FALSE)
                  ELSE handleSubmissionError(w.form, r.outcome, nw),
       last |-> [op |-> "settle", email |-> call.email, ret |-> r.outcome]]

\* handleSubmit after its await: submitEmail resumes and settles, then the
\* try, catch and finally blocks run
handleSubmitResume(w, random, nw) ==
  LET call == Head(w.pending)
      r == submitEmailResume(w.subs, call.email, random, {})
  IN  [rate |-> w.rate,
       subs |-> r.subs,
       pending |-> Tail(w.pending),
       form |-> setSubmittingState(IF r.outcome = SUCCESS
                                     THEN handleSubmissionSuccess(w.form, nw)
                                     ELSE handleSubmissionError(w.form, r.outcome, nw),
                                   FALSE),
       last |-> [op |-> "settle", email |-> call.email, ret |-> r.outcome]]

\* the keydown listener, for the Enter key, followed by the submit listener
\* of the form: Enter in the email input raises both, in this order
enterKey(w, nw) ==
  LET afterKeydown == IF ~w.form.isSubmitting THEN handleSubmit(w, nw) ELSE w
  IN  handleSubmit(afterKeydown, nw)

----------------------------------------------------------------------------
\* LoadingManager, FloatingElementsManager, CrumbleBakeryApp
\*
\* page holds the document (domReady: DOMContentLoaded was raised;
\* fontsReady: document.fonts.ready is resolved; hidden: document.hidden;
\* wide: window.innerWidth >= 768; frames: the ids of the pending
\* requestAnimationFrame requests; timers), LoadingManager (isLoaded;
\* screenHidden, contentLoaded, screenRemoved: what the reveal sequence has
\* done), FloatingElementsManager (animationId, 0 for null) and the timeout
\* of the debounced resize listener (resizeTimeout, 0 for none).  History:
\* reveals (how many times the reveal sequence was scheduled) and events.
\* PageInit is the state after app.init() in a document that is loading.

PageInit ==
  [domReady |-> FALSE,
   fontsReady |-> FALSE,
   hidden |-> FALSE,
   wide |-> TRUE,
   frames |-> {},
   nextFrameId |-> 1,
   timers |-> <<[kind |-> "fallback", due |-> LOADING_DURATION * 2, id |-> 1, tag |-> 0]>>,
   nextTimerId |-> 2,
   isLoaded |-> FALSE,
   screenHidden |-> FALSE,
   contentLoaded |-> FALSE,
   screenRemoved |-> FALSE,
   animationId |-> 0,
   resizeTimeout |-> 0,
   reveals |-> 0,
   events |-> 0]

\* hideLoading without the test of isLoaded
hideLoading_noGuard(p, nw) ==
  [setTimeout(p, "reveal", nw + LOADING_DURATION, 0)
     EXCEPT !.isLoaded = TRUE, !.reveals = @ + 1]

\* LoadingManager.hideLoading()
hideLoading(p, nw) ==
  IF p.isLoaded
    THEN p
    ELSE [setTimeout(p, "reveal", nw + LOADING_DURATION, 0)
            EXCEPT !.isLoaded = TRUE, !.reveals = @ + 1]

\* the callback of the fallback timeout of LoadingManager.init()
fallbackCallback(p, nw) == IF ~p.isLoaded THEN hideLoading(p, nw) ELSE p

\* the callback of the timer hideLoading sets
revealCallback(p, nw) ==
  [setTimeout(p, "remove", nw + removeDelay, 0)
     EXCEPT !.screenHidden = TRUE, !.contentLoaded = TRUE]

\* the callback of the timer revealCallback sets
removeCallback(p) == [p EXCEPT !.screenRemoved = TRUE]

\* FloatingElementsManager.animate()
animate(p) ==
  [p EXCEPT !.frames = @ \cup {p.nextFrameId},
            !.animationId = p.nextFrameId,
            !.nextFrameId = @ + 1]

\* FloatingElementsManager.init()
floatingInit(p) == IF ~p.wide THEN p ELSE animate(p)

\* FloatingElementsManager.destroy()
floatingDestroy(p) ==
  IF p.animationId # 0 THEN [p EXCEPT !.frames = @ \ {p.animationId}] ELSE p

\* CrumbleBakeryApp.initModules(): floatingElementsManager.init(), and the
\* listeners of setupGlobalEventListeners are added
initModules(p) == floatingInit(p)

\* the visibilitychange listener
visibilityListener(p) ==
  IF p.hidden
    THEN floatingDestroy(p)
    ELSE IF p.wide THEN floatingInit(p) ELSE p

\* the debounced resize listener: debounce(func, 250) called
resizeListener(p, nw) ==
  LET q == setTimeout(clearTimeout(p, p.resizeTimeout), "resize", nw + resizeDelay, 0)
  IN  [q EXCEPT !.resizeTimeout = p.nextTimerId]

\* the function the resize listener debounces
resizeCallback(p) ==
  LET q == [floatingDestroy(p) EXCEPT !.resizeTimeout = 0]
  IN  IF q.wide THEN floatingInit(q) ELSE q

----------------------------------------------------------------------------
\* State machine

\* The page is loaded on a fresh store: localStorage holds nothing
InitFresh ==
  /\ now = 0
  /\ rate = NoItem
  /\ subs = NoItem
  /\ pending = <<>>
  /\ last = [op |-> "load", email |-> <<>>, ret |-> "none"]
  /\ attemptLog = <<>>
  /\ form = FormInit
  /\ page = PageInit

\* The page is loaded: localStorage holds nothing under a key, or something
\* that is not JSON
Init ==
  /\ now = 0
  /\ rate \in {NoItem, Garbage}
  /\ subs \in {NoItem, Garbage}
  /\ pending = <<>>
  /\ last = [op |-> "load", email |-> <<>>, ret |-> "none"]
  /\ attemptLog = <<>>
  /\ form = FormInit
  /\ page = PageInit

\* Date.now() moves on
Tick ==
  /\ \E t \in Times : t > now /\ now' = t
  /\ UNCHANGED <<rate, subs, pending, last, attemptLog, form, page>>

\* submitEmail(email) is called and runs to its await or to a throw
SubmitStart(email, F) ==
  LET r == submitEmailSync(rate, subs, now, email, F)
  IN  /\ attemptsOf(r.rate) <= MaxAttempts
      /\ r.outcome = SUSPENDED => Len(pending) < MaxPending
      /\ rate' = r.rate
      /\ pending' = IF r.outcome = SUSPENDED
                      THEN Append(pending, [email |-> email, due |-> now + submitDelay])
                      ELSE pending
      /\ last' = [op |-> "submitEmail", email |-> email, ret |-> r.outcome]
      /\ attemptLog' = logAttempt(attemptLog, isRateLimited(rate, now, F).item, r.rate, now)
      /\ UNCHANGED <<now, subs, form, page>>

\* The submitDelay timer of the oldest suspended call fires and the call
\* runs to its end
SubmitResume(random, F) ==
  /\ pending # <<>>
  /\ now >= Head(pending).due
  /\ LET call == Head(pending)
         r == submitEmailResume(subs, call.email, random, F)
     IN  /\ lengthOf(r.subs) <= MaxSubs
         /\ subs' = r.subs
         /\ last' = [op |-> "settle", email |-> call.email, ret |-> r.outcome]
  /\ pending' = Tail(pending)
  /\ UNCHANGED <<now, rate, attemptLog, form, page>>

\* Direct calls of the LocalStorageManager methods
IsRateLimitedCall(F) ==
  LET r == isRateLimited(rate, now, F)
  IN  /\ rate' = r.item
      /\ last' = [op |-> "isRateLimited", email |-> <<>>, ret |-> Bool(r.ret)]
      /\ UNCHANGED <<now, subs, pending, attemptLog, form, page>>

RecordAttemptCall(F) ==
  LET r == recordAttempt(rate, now, F)
  IN  /\ attemptsOf(r) <= MaxAttempts
      /\ rate' = r
      /\ last' = [op |-> "recordAttempt", email |-> <<>>, ret |-> "none"]
      /\ attemptLog' = logAttempt(attemptLog, rate, r, now)
      /\ UNCHANGED <<now, subs, pending, form, page>>

\* a wasEmailSubmitted call that removes a stored item it cannot parse
WasEmailSubmittedCall_repair(email, F) ==
  /\ last' = [op |-> "wasEmailSubmitted", email |-> email,
              ret |-> Bool(wasEmailSubmitted(subs, email, F))]
  /\ subs' = IF parseThrows(subs) THEN NoItem ELSE subs
  /\ UNCHANGED <<now, rate, pending, attemptLog, form, page>>

WasEmailSubmittedCall(email, F) ==
  /\ last' = [op |-> "wasEmailSubmitted", email |-> email,
              ret |-> Bool(wasEmailSubmitted(subs, email, F))]
  /\ UNCHANGED <<now, rate, subs, pending, attemptLog, form, page>>

StoreSubmissionCall(email, F) ==
  LET r == storeSubmission(subs, email, F)
  IN  /\ lengthOf(r) <= MaxSubs
      /\ subs' = r
      /\ last' = [op |-> "storeSubmission", email |-> email, ret |-> "none"]
      /\ UNCHANGED <<now, rate, pending, attemptLog, form, page>>

\* The operations with every pattern of throwing localStorage methods.
\* Submit: one submitEmail call at a time, as under handleSubmit's
\* isSubmitting guard
Submit == \E email \in Emails, F \in Faults : pending = <<>> /\ SubmitStart(email, F)
Settle == \E random \in BOOLEAN, F \in Faults : SubmitResume(random, F)
CheckLimit == \E F \in Faults : IsRateLimitedCall(F)
Record == \E F \in Faults : RecordAttemptCall(F)
Lookup == \E email \in Emails, F \in Faults : WasEmailSubmittedCall(email, F)
Store == \E email \in Emails, F \in Faults : StoreSubmissionCall(email, F)

\* wasEmailSubmitted asked about any string, with or without whitespace around
LookupAny == \E s \in LookupInputs, F \in Faults : WasEmailSubmittedCall(s, F)

Next == Tick \/ Submit \/ Settle

Spec == Init /\ [][Next]_vars

\* Direct calls of the store's methods only
NextStore == Tick \/ CheckLimit \/ Record \/ Lookup \/ Store

SpecStore == Init /\ [][NextStore]_vars

\* submitEmail calls on a fresh store, overlapping ones too, with no
\* localStorage method throwing
SubmitOk == \E email \in Emails : SubmitStart(email, {})
SettleOk == \E random \in BOOLEAN : SubmitResume(random, {})

NextSubmit == Tick \/ SubmitOk \/ SettleOk

SpecSubmit == InitFresh /\ [][NextSubmit]_vars

\* storeSubmission, recordAttempt and wasEmailSubmitted called directly, the
\* last with any of LookupInputs
NextLookup == Store \/ Record \/ LookupAny

SpecLookup == Init /\ [][NextLookup]_vars

\* validate(email) is called with a string of ValidateInputs
InitValidate ==
  /\ now = 0
  /\ rate = NoItem
  /\ subs = NoItem
  /\ pending = <<>>
  /\ last \in [op : {"input"}, email : ValidateInputs, ret : {"none"}]
  /\ attemptLog = <<>>
  /\ form = FormInit
  /\ page = PageInit

Validate ==
  /\ last.op = "input"
  /\ last' = [op |-> "validate", email |-> last.email, ret |-> validate(last.email).message]
  /\ UNCHANGED <<now, rate, subs, pending, attemptLog, form, page>>

NextValidate == Validate

SpecValidate == InitValidate /\ [][NextValidate]_vars

----------------------------------------------------------------------------
\* Vocabulary of the properties

\* the store is rate-limited: a parseable state with attempts >= 3 whose
\* windowStart is at most five minutes old
RateLimitedAt(item, nw) ==
  /\ IsRec(item)
  /\ parse(item).attempts >= 3
  /\ nw - parse(item).timestamp <= 5 * 60 * 1000

\* the attempts counted in the window that is live at nw: none when no state
\* is stored or the stored window has expired
liveAttempts(item, nw) ==
  IF IsRec(item) /\ nw - parse(item).timestamp <= 5 * 60 * 1000
    THEN parse(item).attempts
    ELSE 0

\* the stored state says: count attempts, window started at nw
RecordedAt(item, count, nw) ==
  /\ IsRec(item)
  /\ parse(item).attempts = count
  /\ parse(item).timestamp = nw

\* email is in the persisted submission set
Stored(item, email) == includes(getSubmissions(item, FALSE), toLowerCase(email))

----------------------------------------------------------------------------
\* C1 (as claimed): every submitEmail call records exactly one attempt,
\* whatever its outcome (here: with no localStorage method throwing and a
\* rate-limit item that is absent or parseable).
C1_EveryCallRecordsAttempt ==
  [][\A email \in Emails :
       SubmitStart(email, {}) /\ ~parseThrows(rate)
         => RecordedAt(rate', liveAttempts(rate, now) + 1, now)]_vars

\* C1 (amended): a submitEmail call that is rejected with RATE_LIMITED records
\* no attempt (the rate-limit item is left as it was, under every fault
\* pattern); every other call records exactly one attempt, also the one that
\* fails with ALREADY_SUBSCRIBED, when no localStorage method throws and the
\* rate-limit item is absent or parseable.
C1_AttemptRecordedUnlessRateLimited ==
  [][\A email \in Emails, F \in Faults :
       SubmitStart(email, F)
         => IF last'.ret = RATE_LIMITED
              THEN rate' = rate
              ELSE (F = {} /\ ~parseThrows(rate))
                     => RecordedAt(rate', liveAttempts(rate, now) + 1, now)]_vars

\* C1 witness: a call was rejected with RATE_LIMITED and the counter still
\* stands at the limit
C1_Witness ==
  /\ last.op = "submitEmail"
  /\ last.ret = RATE_LIMITED
  /\ attemptsOf(rate) = 3

----------------------------------------------------------------------------
\* the three most recent recorded attempts, each at most five minutes after
\* the one before, the latest at most five minutes before nw
LiveChain(log, nw) ==
  /\ Len(log) = 3
  /\ log[2] - log[1] <= 5 * 60 * 1000
  /\ log[3] - log[2] <= 5 * 60 * 1000
  /\ nw - log[3] <= 5 * 60 * 1000

\* three attempts were recorded within the five minutes before nw
ThreeWithinWindow(log, nw) ==
  /\ Len(log) = 3
  /\ nw - log[1] <= 5 * 60 * 1000

\* C2 (as claimed): from a fresh store, a submitEmail call is rejected with
\* RATE_LIMITED exactly when 3 attempts were recorded within the 5 minutes
\* before the call.
C2_RejectedIffThreeAttemptsInWindow ==
  [][\A email \in Emails :
       SubmitStart(email, {})
         => (last'.ret = RATE_LIMITED <=> ThreeWithinWindow(attemptLog, now))]_vars

\* C2 (amended): from a fresh store, a submitEmail call is rejected with
\* RATE_LIMITED exactly when the stored count is >= 3 and the latest recorded
\* attempt is at most 5 minutes old, that is: exactly when the three most recent
\* recorded attempts are each at most 5 minutes after the one before and the
\* latest of them is at most 5 minutes before the call.  Every recorded attempt
\* restarts the window; three attempts within the 5 minutes before the call
\* are a sufficient, not a necessary, condition.
C2_RejectedIffChainOfThreeLive ==
  [][\A email \in Emails :
       SubmitStart(email, {})
         => /\ last'.ret = RATE_LIMITED <=> RateLimitedAt(rate, now)
            /\ last'.ret = RATE_LIMITED <=> LiveChain(attemptLog, now)
            /\ ThreeWithinWindow(attemptLog, now) => last'.ret = RATE_LIMITED]_vars

\* C2 witness: a call was rejected although the first of the three recorded
\* attempts is more than five minutes old
C2_Witness ==
  /\ last.op = "submitEmail"
  /\ last.ret = RATE_LIMITED
  /\ Len(attemptLog) = 3
  /\ now - attemptLog[1] > 5 * 60 * 1000

----------------------------------------------------------------------------
\* three recordAttempt calls were made within five minutes of each other
ThreeRecorded(log) ==
  /\ Len(log) = 3
  /\ log[3] - log[1] <= 5 * 60 * 1000

\* C3 (as claimed): after three recordAttempt() calls within 5 minutes, once
\* the clock is more than 5 minutes past the FIRST of them, isRateLimited()
\* returns false and the stored state is removed.
C3_ClearedFiveMinutesAfterFirst ==
  [][IsRateLimitedCall({}) /\ ThreeRecorded(attemptLog)
       /\ now - attemptLog[1] > 5 * 60 * 1000
         => last'.ret = Bool(FALSE) /\ rate' = NoItem]_vars

\* C3 (amended): after three recordAttempt() calls within 5 minutes, once the
\* clock is more than 5 minutes past the LAST of them, isRateLimited() returns
\* false and the stored state is removed; until then, also when more than 5
\* minutes have passed since the first, it returns true and keeps the state.
C3_ClearedFiveMinutesAfterLast ==
  [][IsRateLimitedCall({}) /\ ThreeRecorded(attemptLog)
         => IF now - attemptLog[3] > 5 * 60 * 1000
              THEN last'.ret = Bool(FALSE) /\ rate' = NoItem
              ELSE last'.ret = Bool(TRUE) /\ rate' = rate /\ IsRec(rate)]_vars

\* C3 witness: isRateLimited() has returned false and removed the state of
\* three attempts whose last is more than five minutes old
C3_Witness ==
  /\ last.op = "isRateLimited"
  /\ last.ret = Bool(FALSE)
  /\ rate = NoItem
  /\ ThreeRecorded(attemptLog)
  /\ now - attemptLog[3] > 5 * 60 * 1000

----------------------------------------------------------------------------
\* C4: isRateLimited(), when getItem and removeItem do not throw: with no
\* (parseable) state stored it returns false and changes nothing; with
\* now - windowStart > 5 minutes it removes the state and returns false; else
\* (at exactly 5 minutes too) it leaves the state and returns attempts >= 3.
C4_IsRateLimitedContract ==
  [][\A F \in Faults :
       IsRateLimitedCall(F) /\ "getItem" \notin F /\ "removeItem" \notin F
         => IF ~IsRec(rate)
              THEN last'.ret = Bool(FALSE) /\ rate' = rate
              ELSE IF now - parse(rate).timestamp > 5 * 60 * 1000
                     THEN last'.ret = Bool(FALSE) /\ rate' = NoItem
                     ELSE /\ rate' = rate
                          /\ last'.ret = Bool(parse(rate).attempts >= 3)]_vars

\* C4 witness: isRateLimited() has returned true at exactly five minutes
\* after windowStart and kept the state
C4_Witness ==
  /\ last.op = "isRateLimited"
  /\ last.ret = Bool(TRUE)
  /\ IsRec(rate)
  /\ now - parse(rate).timestamp = 5 * 60 * 1000

----------------------------------------------------------------------------
\* attemptCount does not decrease, and the state is not removed, over a step
\* at whose end the window is live
MonotonicWhileLive ==
  IsRec(rate) /\ now' - parse(rate).timestamp <= 5 * 60 * 1000
    => IsRec(rate') /\ parse(rate').attempts >= parse(rate).attempts

\* C5 (as claimed): attemptCount never decreases while the window is live,
\* and the first recordAttempt() after the window has expired leaves it at 1.
C5_RecordAttemptResetsExpiredWindow ==
  [][/\ MonotonicWhileLive
     /\ (RecordAttemptCall({}) /\ IsRec(rate)
           /\ now - parse(rate).timestamp > 5 * 60 * 1000)
          => RecordedAt(rate', 1, now)]_vars

\* C5 (amended): attemptCount never decreases while the window is live.
\* recordAttempt() itself never resets it: on a stored state, expired or not,
\* it leaves the previous count plus 1.  The count restarts at 1 only when
\* isRateLimited() has removed the expired state first, as submitEmail does:
\* isRateLimited() on an expired state removes it, and recordAttempt() on an
\* absent state leaves the count at 1.
C5_OnlyIsRateLimitedResets ==
  [][/\ MonotonicWhileLive
     /\ (RecordAttemptCall({}) /\ IsRec(rate))
          => RecordedAt(rate', parse(rate).attempts + 1, now)
     /\ (RecordAttemptCall({}) /\ isNull(rate))
          => RecordedAt(rate', 1, now)
     /\ (IsRateLimitedCall({}) /\ IsRec(rate)
           /\ now - parse(rate).timestamp > 5 * 60 * 1000)
          => rate' = NoItem]_vars

\* C5 witness: recordAttempt() has run on an expired window and the count
\* went on to 2
C5_Witness ==
  /\ last.op = "recordAttempt"
  /\ RecordedAt(rate, 2, now)
  /\ Len(attemptLog) = 2
  /\ attemptLog[2] = now
  /\ attemptLog[2] - attemptLog[1] > 5 * 60 * 1000

----------------------------------------------------------------------------
\* C6 (as claimed): after a recordAttempt() call made while storage is
\* writable (here: no localStorage method throws), the stored state has
\* windowStart = now and attemptCount = previous count + 1, or 1 when there is
\* no readable previous state (the key is absent or its value does not parse).
C6_RecordAttemptAlwaysRecords ==
  [][RecordAttemptCall({})
       => RecordedAt(rate',
                     IF IsRec(rate) THEN parse(rate).attempts + 1 ELSE 1,
                     now)]_vars

----------------------------------------------------------------------------
\* C7: when the store is rate-limited and getItem does not throw, a
\* submitEmail call fails with RATE_LIMITED, also for an email that is in the
\* submission set; it does not reach the submitDelay suspension and leaves
\* the submission set (and the rate-limit state) unchanged.
C7_RateLimitTakesPrecedence ==
  [][\A email \in Emails, F \in Faults :
       SubmitStart(email, F) /\ RateLimitedAt(rate, now) /\ "getItem" \notin F
         => /\ last'.ret = RATE_LIMITED
            /\ pending' = pending
            /\ subs' = subs
            /\ rate' = rate]_vars

\* C7 witness: a call for an email that is in the submission set was
\* rejected with RATE_LIMITED
C7_Witness ==
  /\ last.op = "submitEmail"
  /\ last.ret = RATE_LIMITED
  /\ Stored(subs, last.email)
  /\ pending = <<>>

----------------------------------------------------------------------------
\* C8: with no localStorage method throwing and a rate-limit item that is
\* absent or parseable, a submitEmail call for an email in the submission set
\* (in any letter case), made while not rate-limited, fails with
\* ALREADY_SUBSCRIBED before the submitDelay suspension, leaves the submission
\* set unchanged and records exactly one attempt: the count of the live window
\* plus 1, with windowStart = now.
C8_DuplicateRejectedAndCounted ==
  [][\A email \in Emails :
       SubmitStart(email, {}) /\ Stored(subs, email)
       /\ ~RateLimitedAt(rate, now) /\ ~parseThrows(rate)
         => /\ last'.ret = ALREADY_SUBSCRIBED
            /\ pending' = pending
            /\ subs' = subs
            /\ RecordedAt(rate', liveAttempts(rate, now) + 1, now)]_vars

\* C8 witness: the upper-case variant of a stored email was rejected with
\* ALREADY_SUBSCRIBED and the attempt was counted as the second of its window
C8_Witness ==
  /\ last.op = "submitEmail"
  /\ last.ret = ALREADY_SUBSCRIBED
  /\ last.email = EmailUpper
  /\ Stored(subs, EmailUpper)
  /\ RecordedAt(rate, 2, now)

----------------------------------------------------------------------------
\* C9: on a store whose methods do not throw, a submitEmail call for an email
\* that is not in the submission set, made while not rate-limited, is
\* suspended for submitDelay; when it resumes with the random failure not
\* taken it resolves with success, not before submitDelay has passed, and the
\* email is in the submission set; an email in the submission set stays in
\* it, so every later wasEmailSubmitted(email) returns true.
C9_NewEmailAcceptedAndRemembered ==
  [][/\ \A email \in Emails :
          SubmitStart(email, {}) /\ ~Stored(subs, email) /\ ~RateLimitedAt(rate, now)
            => /\ last'.ret = SUSPENDED
               /\ pending' = Append(pending, [email |-> email, due |-> now + 1500])
               /\ subs' = subs
     /\ SubmitResume(FALSE, {})
          => /\ last' = [op |-> "settle", email |-> Head(pending).email, ret |-> SUCCESS]
             /\ now >= Head(pending).due
             /\ wasEmailSubmitted(subs', Head(pending).email, {})
     /\ \A email \in Emails :
          wasEmailSubmitted(subs, email, {}) => wasEmailSubmitted(subs', email, {})]_vars

\* C9 witness: an email was accepted, a later call for another email has
\* started, and wasEmailSubmitted still finds the accepted one (asked for in
\* upper case)
C9_Witness ==
  /\ last.op = "submitEmail"
  /\ last.email = EmailOther
  /\ last.ret = SUSPENDED
  /\ subs = stringify(<<EmailLower>>)
  /\ wasEmailSubmitted(subs, EmailUpper, {})

----------------------------------------------------------------------------
\* C10 (as claimed): the persisted submission set is append-only under every
\* pattern of throwing localStorage methods: an entry of the stored array is
\* an entry of it in the next state.
C10_SubmissionSetAppendOnly ==
  [][\A i \in 1..lengthOf(subs) :
       includes(getSubmissions(subs', FALSE), getSubmissions(subs, FALSE)[i])]_vars

----------------------------------------------------------------------------
\* C11: emails are lower-cased before storage and before comparison: after
\* any sequence of submitEmail calls on a fresh store every entry of the
\* stored array equals its own lower-casing, and a submitEmail call, made
\* while not rate-limited, for an email that differs from an accepted one
\* only in letter case fails with alreadySubscribed.
C11_LowerCasedBeforeStorageAndComparison ==
  /\ [](\A i \in 1..lengthOf(subs) :
          getSubmissions(subs, FALSE)[i] = toLowerCase(getSubmissions(subs, FALSE)[i]))
  /\ [][\A email \in Emails, accepted \in Emails :
          /\ SubmitStart(email, {})
          /\ includes(getSubmissions(subs, FALSE), toLowerCase(accepted))
          /\ toLowerCase(email) = toLowerCase(accepted)
          /\ ~RateLimitedAt(rate, now)
          => last'.ret = ALREADY_SUBSCRIBED]_vars

\* C11 witness: "a@b.co" is the one stored entry and a call for "A@B.co" was
\* rejected as a duplicate
C11_Witness ==
  /\ subs = stringify(<<EmailLower>>)
  /\ last = [op |-> "submitEmail", email |-> EmailUpper, ret |-> ALREADY_SUBSCRIBED]

----------------------------------------------------------------------------
\* C12 (as claimed): wasEmailSubmitted lower-cases and trims its argument:
\* when getItem does not throw, it returns true for every string that is a
\* stored entry after lower-casing and trimming; when getItem throws it
\* returns false.
C12_LowerCasedAndTrimmed ==
  [][\A s \in LookupInputs, F \in Faults :
       WasEmailSubmittedCall(s, F)
         => IF "getItem" \in F
              THEN last'.ret = Bool(FALSE)
              ELSE includes(getSubmissions(subs, FALSE), toLowerCase(trim(s)))
                     => last'.ret = Bool(TRUE)]_vars

\* C12 (corrected): wasEmailSubmitted lower-cases its argument and does not
\* trim it: when getItem does not throw, it returns true exactly when the
\* lower-cased argument, whitespace included, is a stored entry; when
\* getItem throws or the stored item does not parse it returns false.
C12_LowerCasedNotTrimmed ==
  [][\A s \in LookupInputs, F \in Faults :
       WasEmailSubmittedCall(s, F)
         => IF "getItem" \in F \/ parseThrows(subs)
              THEN last'.ret = Bool(FALSE)
              ELSE last'.ret = Bool(\E i \in 1..lengthOf(subs) :
                                      getSubmissions(subs, FALSE)[i] = toLowerCase(s))]_vars

\* C12 witness: "a@b.co" is stored and wasEmailSubmitted(" A@B.co ") has
\* returned false
C12_Witness ==
  /\ includes(getSubmissions(subs, FALSE), EmailLower)
  /\ last = [op |-> "wasEmailSubmitted", email |-> EmailUpperPadded, ret |-> Bool(FALSE)]

----------------------------------------------------------------------------
\* C13: a submitEmail call for a new email that starts while an earlier call
\* for the same email is suspended, neither rate-limited, passes the
\* duplicate check too; each of the two resolves with success and each
\* pushes the email onto the stored array; after either write
\* wasEmailSubmitted(email) is true, and the second write changes the answer
\* of wasEmailSubmitted for no email.
C13_OverlappingCallsBothWrite ==
  [][/\ \A email \in Emails :
          /\ SubmitStart(email, {})
          /\ \E i \in 1..Len(pending) : pending[i].email = email
          /\ ~Stored(subs, email)
          /\ ~RateLimitedAt(rate, now)
          => last'.ret = SUSPENDED
     /\ SubmitResume(FALSE, {})
          => /\ last'.ret = SUCCESS
             /\ subs' = stringify(Append(getSubmissions(subs, FALSE),
                                         toLowerCase(Head(pending).email)))
             /\ wasEmailSubmitted(subs', Head(pending).email, {})
             /\ Stored(subs, Head(pending).email)
                  => \A e \in Emails :
                       wasEmailSubmitted(subs', e, {}) = wasEmailSubmitted(subs, e, {})]_vars

\* C13 witness: two overlapping calls for "a@b.co" have both resolved with
\* success and the stored array holds the email twice
C13_Witness ==
  /\ subs = stringify(<<EmailLower, EmailLower>>)
  /\ pending = <<>>
  /\ last = [op |-> "settle", email |-> EmailLower, ret |-> SUCCESS]

----------------------------------------------------------------------------
\* C14: no storage failure is surfaced: in every state the store can reach,
\* with every set of throwing localStorage methods and with stored items
\* that do not parse, wasEmailSubmitted and isRateLimited return (false when
\* their read fails) and do not throw, recordAttempt and storeSubmission
\* return, each with the result the model of the method gives, and
\* submitEmail is rejected with rateLimited, alreadySubscribed or
\* networkError or resolves with success, never with a storage exception.
C14_NoStorageFailureSurfaced ==
  /\ last.op = "submitEmail" => last.ret \in {RATE_LIMITED, ALREADY_SUBSCRIBED, SUSPENDED}
  /\ last.op = "settle" => last.ret \in {SUCCESS, NETWORK_ERROR}
  /\ \A F \in Faults :
       /\ LET r == tryIsRateLimited(rate, now, F)
          IN  /\ ~r.threw
              /\ r.val = isRateLimited(rate, now, F)
              /\ "getItem" \in F \/ parseThrows(rate) => r.val.ret = FALSE
       /\ LET r == tryRecordAttempt(rate, now, F)
          IN  ~r.threw /\ r.val = recordAttempt(rate, now, F)
       /\ \A email \in Emails :
            /\ LET r == tryWasEmailSubmitted(subs, email, F)
               IN  /\ ~r.threw
                   /\ r.val = wasEmailSubmitted(subs, email, F)
                   /\ "getItem" \in F \/ parseThrows(subs) => r.val = FALSE
            /\ LET r == tryStoreSubmission(subs, email, F)
               IN  ~r.threw /\ r.val = storeSubmission(subs, email, F)
            /\ trySubmitEmailSync(rate, subs, now, email, F)
                 = submitEmailSync(rate, subs, now, email, F).outcome
            /\ \A random \in BOOLEAN :
                 trySubmitEmailResume(subs, email, random, F)
                   = submitEmailResume(subs, email, random, F).outcome

\* C14 witness: a submitEmail call for a stored email went on to its await:
\* getItem threw in the duplicate check and the failure was swallowed
C14_Witness ==
  /\ last.op = "submitEmail"
  /\ last.ret = SUSPENDED
  /\ Stored(subs, last.email)

----------------------------------------------------------------------------
\* C15: when setItem throws inside storeSubmission in a submitEmail call that
\* passed its checks and did not take the random failure, the call still
\* resolves with success and nothing is rolled back or written: the item
\* under rateLimitKey, with the attempt the call recorded, is as it was, and
\* so is the item under storageKey, where the email stays absent.
C15_WriteFailureStillSuccess ==
  [][\A F \in Faults :
       SubmitResume(FALSE, F) /\ "setItem" \in F
         => /\ last' = [op |-> "settle", email |-> Head(pending).email, ret |-> SUCCESS]
            /\ rate' = rate
            /\ attemptLog' = attemptLog
            /\ subs' = subs
            /\ ~Stored(subs, Head(pending).email) => ~Stored(subs', Head(pending).email)]_vars

\* C15 witness: a call has resolved with success, its attempt is counted and
\* its email is not in the stored array
C15_Witness ==
  /\ last.op = "settle"
  /\ last.ret = SUCCESS
  /\ ~Stored(subs, last.email)
  /\ attemptsOf(rate) >= 1
  /\ attemptLog # <<>>

----------------------------------------------------------------------------
\* C16: wasEmailSubmitted is a read: a call, with any set of throwing
\* methods, leaves the items under storageKey and rateLimitKey as they were,
\* and when getItem does not throw its result is a function of the stored
\* array alone; the stored array is changed by storeSubmission only, and a
\* storeSubmission(e') whose read works changes the answer for no email
\* other than e'.  So two wasEmailSubmitted(e) calls with no
\* storeSubmission(e) between them return the same.
C16_WasEmailSubmittedIsIdempotentRead ==
  [][/\ \A e \in LookupInputs, F \in Faults :
          WasEmailSubmittedCall(e, F)
            => /\ subs' = subs
               /\ rate' = rate
               /\ "getItem" \notin F
                    => /\ last'.ret = Bool(Stored(subs, e))
                       /\ last'.ret = Bool(wasEmailSubmitted(subs', e, {}))
     /\ subs' # subs => last'.op = "storeSubmission"
     /\ \A e, stored \in Emails, F \in Faults :
          /\ StoreSubmissionCall(stored, F)
          /\ "getItem" \notin F
          /\ toLowerCase(e) # toLowerCase(stored)
          => Stored(subs', e) = Stored(subs, e)]_vars

\* C16 witness: wasEmailSubmitted("a@b.co") has returned true on a store
\* that holds "a@b.co" and a recorded attempt
C16_Witness ==
  /\ last = [op |-> "wasEmailSubmitted", email |-> EmailLower, ret |-> Bool(TRUE)]
  /\ Stored(subs, EmailLower)
  /\ attemptsOf(rate) >= 1

----------------------------------------------------------------------------
\* Vocabulary of the validator properties

\* the string is empty or whitespace only
Blank(s) == \A i \in 1..Len(s) : s[i] = " "
\* the string has exactly one "@"
OneAt(s) == Cardinality({i \in 1..Len(s) : s[i] = "@"}) = 1
\* the parts of a string around its first "@"
LocalOf(s) == split(s, "@")[1]
DomainOf(s) == split(s, "@")[2]
LabelsOf(s) == split(DomainOf(s), ".")
TldOf(s) == LabelsOf(s)[Len(LabelsOf(s))]

\* the local part starts or ends with "." or contains ".."
LocalDotsWrong(s) ==
  \/ LocalOf(s) # <<>> /\ LocalOf(s)[1] = "."
  \/ LocalOf(s) # <<>> /\ LocalOf(s)[Len(LocalOf(s))] = "."
  \/ \E i \in 1..(Len(LocalOf(s)) - 1) : LocalOf(s)[i] = "." /\ LocalOf(s)[i + 1] = "."

\* a label starts or ends with "-"
LabelHyphenWrong(s) ==
  \E k \in 1..Len(LabelsOf(s)) :
    LET l == LabelsOf(s)[k]
    IN  l # <<>> /\ (l[1] = "-" \/ l[Len(l)] = "-")

\* the final label is shorter than 2 characters or holds a non-letter
TldWrong(s) == Len(TldOf(s)) < 2 \/ \E i \in 1..Len(TldOf(s)) : TldOf(s)[i] \notin Letters

\* the structural rules of the validator as the specification lists them
\* for a string with exactly one "@"
StructureAsListed(s) ==
  /\ OneAt(s)
  /\ Len(LocalOf(s)) \in 1..64
  /\ ~LocalDotsWrong(s)
  /\ Len(DomainOf(s)) \in 1..253
  /\ Len(LabelsOf(s)) >= 2
  /\ \A k \in 1..Len(LabelsOf(s)) :
       /\ Len(LabelsOf(s)[k]) \in 1..63
       /\ \A i \in 1..Len(LabelsOf(s)[k]) : LabelsOf(s)[k][i] \in Letters \cup Digits \cup {"-"}
  /\ ~LabelHyphenWrong(s)
  /\ ~TldWrong(s)

\* the message for a string that is not valid: the first check it fails
ReasonOf(s) ==
  IF Blank(s) THEN REQUIRED
  ELSE IF Len(trim(s)) < 5 THEN TOO_SHORT
  ELSE IF Len(trim(s)) > 254 THEN TOO_LONG
  ELSE INVALID

----------------------------------------------------------------------------
\* C17: validate reports the first check that fails, in a fixed order: an
\* empty or whitespace-only string gives required; any other string whose
\* trimmed length is under 5 gives tooShort and one whose trimmed length is
\* over 254 gives tooLong, whatever its format; invalid and valid are given
\* only to strings of trimmed length 5..254.
C17_ChecksInFixedOrder ==
  last.op = "validate"
    => /\ Blank(last.email) => last.ret = REQUIRED
       /\ ~Blank(last.email) /\ Len(trim(last.email)) < 5 => last.ret = TOO_SHORT
       /\ Len(trim(last.email)) > 254 => last.ret = TOO_LONG
       /\ last.ret \in {INVALID, VALID}
            => Len(trim(last.email)) >= 5 /\ Len(trim(last.email)) <= 254

\* C17 witness: "a@a" (one "@", three characters) was given tooShort, and
\* so not invalid
C17_Witness ==
  last = [op |-> "validate", email |-> <<"a", "@", "a">>, ret |-> TOO_SHORT]

----------------------------------------------------------------------------
\* C18 (as claimed): validate returns valid exactly for the strings whose
\* trimmed form has length 5..254 and satisfies the structural rules as
\* listed (one "@", the rules of the local part, of the domain and of its
\* labels); every other string is given the message of the first check it
\* fails.
C18_ValidIffStructureAsListed ==
  last.op = "validate"
    => IF /\ Len(trim(last.email)) >= 5
          /\ Len(trim(last.email)) <= 254
          /\ StructureAsListed(trim(last.email))
         THEN last.ret = VALID
         ELSE last.ret = ReasonOf(last.email)

\* every character of the local part is a letter, a digit or one of
\* . ! # $ % & ' * + / = ? ^ _ { | } ~ -
LocalCharsAllowed(s) == \A i \in 1..Len(LocalOf(s)) : isLocalChar(LocalOf(s)[i])

\* C18 (corrected): validate returns valid exactly for the strings whose
\* trimmed form has length 5..254, satisfies the structural rules as listed
\* and has a local part made of the characters emailRegex allows; every
\* other string is given the message of the first check it fails.
C18_ValidIffStructureAndLocalCharacters ==
  last.op = "validate"
    => IF /\ Len(trim(last.email)) >= 5
          /\ Len(trim(last.email)) <= 254
          /\ StructureAsListed(trim(last.email))
          /\ LocalCharsAllowed(trim(last.email))
         THEN last.ret = VALID
         ELSE last.ret = ReasonOf(last.email)

\* C18 witness: "a,aa@aa.aa", which keeps every listed rule, was given
\* invalid
C18_Witness ==
  /\ last = [op |-> "validate",
             email |-> <<"a", ",", "a", "a", "@", "a", "a", ".", "a", "a">>,
             ret |-> INVALID]
  /\ StructureAsListed(last.email)

----------------------------------------------------------------------------
\* C19: a string of trimmed length 5..254 with one "@" that breaks a
\* structural rule is given invalid: a local part that starts or ends with
\* "." or contains "..", a domain of fewer than two labels, a label that
\* starts or ends with "-", a final label shorter than two characters or
\* with a non-letter in it.
C19_StructuralViolationIsInvalid ==
  /\ last.op = "validate"
  /\ Len(trim(last.email)) >= 5
  /\ Len(trim(last.email)) <= 254
  /\ OneAt(trim(last.email))
  /\ \/ LocalDotsWrong(trim(last.email))
     \/ Len(LabelsOf(trim(last.email))) < 2
     \/ LabelHyphenWrong(trim(last.email))
     \/ TldWrong(trim(last.email))
  => last.ret = INVALID

\* C19 witness: "aaaa@-a.aa", whose first label starts with "-", was given
\* invalid
C19_Witness ==
  /\ last = [op |-> "validate",
             email |-> <<"a", "a", "a", "a", "@", "-", "a", ".", "a", "a">>,
             ret |-> INVALID]
  /\ LabelHyphenWrong(last.email)

----------------------------------------------------------------------------
\* C20: submitEmail runs isRateLimited, recordAttempt and wasEmailSubmitted
\* without suspending, so with any number of calls suspended and resumed in
\* any order on a store that starts empty the stored attempts count never
\* exceeds 3, and a call made while the stored count is 3 and the third
\* attempt is at most five minutes old is rejected with rateLimited and
\* records nothing.
C20_AttemptCountNeverExceedsThree ==
  /\ [](attemptsOf(rate) <= 3)
  /\ [][\A email \in Emails :
          /\ SubmitStart(email, {})
          /\ attemptsOf(rate) = 3
          /\ Len(attemptLog) = 3
          /\ now - attemptLog[3] <= 5 * 60 * 1000
          => /\ last'.ret = RATE_LIMITED
             /\ rate' = rate
             /\ pending' = pending]_vars

\* C20 witness: with two calls suspended and three attempts stored, a
\* further call was rejected with rateLimited
C20_Witness ==
  /\ Len(pending) = 2
  /\ attemptsOf(rate) = 3
  /\ last.op = "submitEmail"
  /\ last.ret = RATE_LIMITED

----------------------------------------------------------------------------
----------------------------------------------------------------------------
\* C22: a submitEmail call that fails with networkError after its await
\* leaves the stored array and the item under rateLimitKey, with the attempt
\* the call recorded, as they were: the email is not stored by the failed
\* call, so a retry is answered alreadySubscribed only if the email was
\* stored before, and a retry made when three attempts are recorded inside
\* the window is rejected with rateLimited.
C22_NetworkErrorKeepsAttemptOnly ==
  [][/\ SubmitResume(TRUE, {})
          => /\ last' = [op |-> "settle", email |-> Head(pending).email, ret |-> NETWORK_ERROR]
             /\ subs' = subs
             /\ rate' = rate
             /\ attemptsOf(rate) >= 1
     /\ \A email \in Emails :
          SubmitStart(email, {})
            => /\ last'.ret = ALREADY_SUBSCRIBED => Stored(subs, email)
               /\ ThreeWithinWindow(attemptLog, now) /\ attemptsOf(rate) = 3
                    => last'.ret = RATE_LIMITED]_vars

\* C22 witness: three calls have failed with networkError, nothing is stored
\* and the retry was rejected with rateLimited
C22_Witness ==
  /\ subs = NoItem
  /\ attemptsOf(rate) = 3
  /\ pending = <<>>
  /\ last.op = "submitEmail"
  /\ last.ret = RATE_LIMITED

----------------------------------------------------------------------------
\* The form in the browser
\*
\* The user raises at most MaxEvents events.  Time moves only when no timer
\* is due, and then to the next instant a timer is due at: a timer fires at
\* the instant it is due.  The timers of the form fire in the order they
\* were set; a due timer of the form and a due submitDelay timer fire in
\* either order.  localStorage works (no fault).

\* The handler's result becomes the state
Apply(w) ==
  /\ attemptsOf(w.rate) <= MaxAttempts
  /\ Len(w.pending) <= MaxPending
  /\ lengthOf(w.subs) <= MaxSubs
  /\ rate' = w.rate
  /\ subs' = w.subs
  /\ pending' = w.pending
  /\ form' = w.form
  /\ last' = w.last
  /\ UNCHANGED <<now, attemptLog, page>>

\* A user event begins: no submitEmail call was made for it yet
userEvent(f, event) == [f EXCEPT !.events = @ + 1, !.calls = 0, !.event = event]

\* The timers of the form that are due, oldest first
ReadyTimers == SelectSeq(form.timers, LAMBDA t : t.due <= now)

\* The instants a timer is due at
DueTimes ==
  {form.timers[i].due : i \in DOMAIN form.timers}
    \cup {pending[i].due : i \in DOMAIN pending}

\* The user types: the input's value becomes v and the input listener runs
InputEvent(v) ==
  /\ form.events < MaxEvents
  /\ Apply([World EXCEPT
       !.form = handleInputChange([userEvent(form, "input") EXCEPT !.value = v,
                                                          !.lastInputAt = now], now)])

\* The user pastes: the paste listener runs, the input's value becomes v
\* and the input listener runs
PasteEvent(v) ==
  /\ form.events < MaxEvents
  /\ Apply([World EXCEPT
       !.form = handleInputChange(
                  [setTimeout(userEvent(form, "paste"), "paste", now + pasteDelay, 0)
                     EXCEPT !.value = v, !.lastInputAt = now], now)])

\* The input gets the focus: the focus listener runs
FocusEvent ==
  /\ form.events < MaxEvents
  /\ Apply([World EXCEPT !.form = clearMessages(userEvent(form, "focus"))])

\* The form's submit event is raised (the button, or requestSubmit)
SubmitEvent ==
  /\ form.events < MaxEvents
  /\ Apply(handleSubmit([World EXCEPT !.form = userEvent(form, "submit")], now))

\* The user presses Enter in the input
EnterKey ==
  /\ form.events < MaxEvents
  /\ Apply(enterKey([World EXCEPT !.form = userEvent(form, "Enter")], now))

\* The oldest due timer of the form fires
FormTimerFires ==
  /\ ReadyTimers # <<>>
  /\ LET t == Head(ReadyTimers)
         f == clearTimeout(form, t.id)
     IN  Apply([World EXCEPT
           !.form = CASE t.kind = "debounce" -> debounceCallback(f)
                      [] t.kind = "paste" -> handleInputChange(f, now)
                      [] t.kind = "clearError" -> clearError(f)
                      [] t.kind = "hideSuccess" -> hideSuccess(f)])

\* The submitDelay timer of the suspended submitEmail call fires
FormSettle(random) ==
  /\ pending # <<>>
  /\ now >= Head(pending).due
  /\ Apply(handleSubmitResume(World, random, now))

\* Time moves to the next instant a timer is due at
FormAdvance ==
  /\ DueTimes # {}
  /\ \A d \in DueTimes : d > now
  /\ now' = CHOOSE d \in DueTimes : \A e \in DueTimes : d <= e
  /\ UNCHANGED <<rate, subs, pending, last, attemptLog, form, page>>

FormInput == \E v \in TypedValues : InputEvent(v)
FormPaste == \E v \in TypedValues : PasteEvent(v)
FormSettles == \E random \in BOOLEAN : FormSettle(random)

NextForm ==
  FormInput \/ FormPaste \/ FocusEvent \/ SubmitEvent \/ EnterKey
    \/ FormTimerFires \/ FormSettles \/ FormAdvance

SpecForm == InitFresh /\ [][NextForm]_vars

\* The form with the events that lead to a submission only
NextFormSubmit ==
  FormInput \/ SubmitEvent \/ EnterKey \/ FormTimerFires \/ FormSettles \/ FormAdvance

\* Timers that are due fire, and time does not stop
SpecFormLive ==
  /\ InitFresh
  /\ [][NextFormSubmit]_vars
  /\ WF_vars(FormTimerFires) /\ WF_vars(FormSettles) /\ WF_vars(FormAdvance)

----------------------------------------------------------------------------
\* The trimmed value of the input, which handleSubmit reads
TrimmedValue == trim(form.value)

\* A submit event or an Enter keypress is handled
SubmitOrEnter == SubmitEvent \/ EnterKey

\* Every email of the persisted submission set is one validate accepts
StoredEmails ==
  {getSubmissions(subs, FALSE)[i] : i \in 1..lengthOf(subs)}
StoredEmailsValid == \A email \in StoredEmails : validate(email).isValid

\* C23: the form validates before it submits.  A submit event or an Enter
\* keypress calls submitEmail only when validate accepts the trimmed value
\* of the input; when validate rejects it, the attempt counter, the
\* submission set and the suspended calls stay as they are and, unless a
\* submission is in flight, the reason is displayed; and every email of the persisted set is one validate
\* accepts.
C23_ValidatesBeforeSubmitting ==
  /\ [][\A email \in {TrimmedValue} :
          /\ SubmitOrEnter /\ form'.calls > 0 => validate(email).isValid
          /\ SubmitOrEnter /\ ~validate(email).isValid
               => /\ rate' = rate /\ subs' = subs /\ pending' = pending
                  /\ form'.calls = 0
                  /\ ~form.isSubmitting
                       => /\ form'.errorShown
                          /\ form'.errorText = validate(email).message]_vars
  /\ []StoredEmailsValid

\* C23 witness: "a@b" was typed and submitted before the debounce timer
\* fired; the form displays that it is too short and nothing was recorded
\* for it, while an earlier submission is stored.
C23_Witness ==
  /\ form.value = ShortValue
  /\ ~form.debounced
  /\ form.errorShown
  /\ form.errorText = TOO_SHORT
  /\ form.calls = 0
  /\ attemptsOf(rate) = 1
  /\ lengthOf(subs) = 1

----------------------------------------------------------------------------
\* C24: at most one submission is in flight.  A submitEmail call is
\* suspended exactly when isSubmitting is true, there is never more than
\* one, and a submit event or an Enter keypress handled while isSubmitting
\* is true calls submitEmail not at all and changes neither the stores nor
\* the suspended call nor the form's submitting state.
C24_OneSubmissionInFlight ==
  /\ [](Len(pending) <= 1 /\ (form.isSubmitting <=> pending # <<>>))
  /\ [][SubmitOrEnter /\ form.isSubmitting
          => /\ form'.calls = 0
             /\ form'.isSubmitting
             /\ rate' = rate /\ subs' = subs /\ pending' = pending /\ last' = last]_vars

\* C24 witness: the form was submitted, and submitted again while the
\* first submitEmail call was suspended; that call is the only one.
C24_Witness ==
  /\ form.event = "submit"
  /\ form.events = 3
  /\ form.calls = 0
  /\ form.isSubmitting
  /\ now = 0
  /\ form.lastInputAt = 0
  /\ Len(pending) = 1
  /\ attemptsOf(rate) = 1

----------------------------------------------------------------------------
\* C25: the form never stays locked.  When timers that are due fire, a
\* form that is submitting is later not submitting; the step that settles
\* the suspended submitEmail call (success or NETWORK_ERROR) and the step
\* of a call that is rejected before it suspends (RATE_LIMITED,
\* ALREADY_SUBSCRIBED) both end with isSubmitting false.
C25_SubmittingStateIsLeft ==
  /\ form.isSubmitting ~> ~form.isSubmitting
  /\ [][/\ FormSettles => ~form'.isSubmitting
        /\ SubmitOrEnter /\ form'.calls > 0 /\ last'.ret # SUSPENDED
             => ~form'.isSubmitting]_vars

\* C25 witness: a submission failed with NETWORK_ERROR after its delay and
\* the form is no longer submitting.
C25_Witness ==
  /\ last.op = "settle"
  /\ last.ret = NETWORK_ERROR
  /\ ~form.isSubmitting
  /\ form.errorShown
  /\ pending = <<>>

----------------------------------------------------------------------------
\* C26 (as claimed): one Enter keypress in the email input, handled by the
\* keydown listener and then by the submit listener, makes at most one
\* submitEmail call and records at most one attempt, whatever the outcome
\* of the call.
C26_OneCallPerEnterKeypress ==
  [][EnterKey => /\ form'.calls <= 1
                 /\ attemptsOf(rate') <= attemptsOf(rate) + 1]_vars

----------------------------------------------------------------------------
\* The debounce timers that are pending
DebounceTimers == SelectSeq(form.timers, LAMBDA t : t.kind = "debounce")

\* The debounce timer fires
DebounceFires ==
  /\ ReadyTimers # <<>>
  /\ Head(ReadyTimers).kind = "debounce"
  /\ FormTimerFires

\* At most one debounce timer is pending: none before the first
\* handleInputChange call and after the callback has run, and otherwise the
\* one debounceTimeout names, due debounceDelay after the last call
OneDebounceTimer ==
  IF form.lastChangeAt = -1 \/ form.debounced
    THEN DebounceTimers = <<>>
    ELSE /\ Len(DebounceTimers) = 1
         /\ DebounceTimers[1].id = form.debounceTimeout
         /\ DebounceTimers[1].due = form.lastChangeAt + debounceDelay

\* C27 (as claimed): at most one debounce timer is pending, and when it
\* fires it is 300 ms after the last input event and the input's value is
\* validated: an error is displayed exactly when validate rejects it.
C27_DebouncedAfterLastInputEvent ==
  /\ []OneDebounceTimer
  /\ [][DebounceFires
          => /\ now = form.lastInputAt + debounceDelay
             /\ form'.errorShown = ~validated[TrimmedValue].isValid]_vars

\* C27: at most one debounce timer is pending and every handleInputChange
\* call replaces it; the callback runs once per burst, 300 ms after the last
\* handleInputChange call, which is the last input event or, after a paste,
\* 10 ms later; it validates the trimmed value of the input at that moment
\* when that is not empty, and clears the messages when it is empty.
C27_DebouncedAfterLastChange ==
  /\ []OneDebounceTimer
  /\ [][/\ FormInput \/ FormPaste
             => /\ ~form'.debounced
                /\ form'.lastChangeAt = now
                /\ form'.debounceTimeout # form.debounceTimeout
        /\ DebounceFires
             => /\ ~form.debounced /\ form'.debounced
                /\ now = form.lastChangeAt + debounceDelay
                /\ form.lastInputAt <= form.lastChangeAt
                /\ form.lastChangeAt <= form.lastInputAt + pasteDelay
                /\ IF TrimmedValue # <<>>
                     THEN /\ form'.errorShown = ~validated[TrimmedValue].isValid
                          /\ form'.errorShown
                               => form'.errorText = validated[TrimmedValue].message
                          /\ form'.successShown = form.successShown
                     ELSE ~form'.errorShown /\ ~form'.successShown]_vars

\* C27 witness: "a@b" was pasted, the callback ran 310 ms later and the
\* form displays that the value is too short.
C27_Witness ==
  /\ form.event = "paste"
  /\ form.events = 1
  /\ form.value = ShortValue
  /\ form.debounced
  /\ now = form.lastInputAt + pasteDelay + debounceDelay
  /\ form.errorShown
  /\ form.errorText = TOO_SHORT

----------------------------------------------------------------------------
\* C28 (as claimed): an auto-hide timer hides only the message it was
\* started for.  When the timer a submission error started fires while an
\* error put on display later is shown, that error stays; when the timer a
\* success started fires while a success message put on display later is
\* shown, that message stays.
C28_HideTimerHidesOwnMessage ==
  [][ReadyTimers # <<>> /\ FormTimerFires
       => LET t == Head(ReadyTimers)
          IN  /\ t.kind = "clearError" /\ form.errorShown /\ form.errorId # t.tag
                   => form'.errorShown
              /\ t.kind = "hideSuccess" /\ form.successShown /\ form.successId # t.tag
                   => form'.successShown]_vars

----------------------------------------------------------------------------
\* The page in the browser
\*
\* The document is loading when the script runs; it is visible or hidden
\* and wide or narrow.  DOMContentLoaded is raised once; document.fonts.ready
\* resolves at some moment or never.  At most MaxPageEvents visibilitychange
\* and resize events follow.  Animation frames are run while the document is
\* visible.  Time moves as for the form.

InitPage ==
  /\ now = 0
  /\ rate = NoItem
  /\ subs = NoItem
  /\ pending = <<>>
  /\ last = [op |-> "load", email |-> <<>>, ret |-> "none"]
  /\ attemptLog = <<>>
  /\ form = FormInit
  /\ page \in {[PageInit EXCEPT !.hidden = h, !.wide = w] : h, w \in BOOLEAN}

\* The timers of the page that are due, oldest first
ReadyPageTimers == SelectSeq(page.timers, LAMBDA t : t.due <= now)

\* DOMContentLoaded is raised: the promise of LoadingManager.init resolves
\* if the fonts are ready, and initModules runs
DOMContentLoaded ==
  /\ ~page.domReady
  /\ LET p == initModules([page EXCEPT !.domReady = TRUE])
     IN  page' = IF p.fontsReady THEN hideLoading(p, now) ELSE p
  /\ UNCHANGED <<now, rate, subs, pending, last, attemptLog, form>>

\* document.fonts.ready resolves
FontsReady ==
  /\ ~page.fontsReady
  /\ LET p == [page EXCEPT !.fontsReady = TRUE]
     IN  page' = IF p.domReady THEN hideLoading(p, now) ELSE p
  /\ UNCHANGED <<now, rate, subs, pending, last, attemptLog, form>>

\* The tab is hidden or shown; the listener exists once initModules has run
VisibilityChange ==
  /\ page.events < MaxPageEvents
  /\ LET p == [page EXCEPT !.hidden = ~@, !.events = @ + 1]
     IN  page' = IF p.domReady THEN visibilityListener(p) ELSE p
  /\ UNCHANGED <<now, rate, subs, pending, last, attemptLog, form>>

\* The window is resized; the listener exists once initModules has run
Resize(wide) ==
  /\ page.events < MaxPageEvents
  /\ LET p == [page EXCEPT !.wide = wide, !.events = @ + 1]
     IN  page' = IF p.domReady THEN resizeListener(p, now) ELSE p
  /\ UNCHANGED <<now, rate, subs, pending, last, attemptLog, form>>

\* The browser runs the oldest requested animation frame callback
Frame ==
  /\ ~page.hidden
  /\ page.frames # {}
  /\ page.nextFrameId <= MaxFrames
  /\ LET id == CHOOSE i \in page.frames : \A j \in page.frames : i <= j
     IN  page' = animate([page EXCEPT !.frames = @ \ {id}])
  /\ UNCHANGED <<now, rate, subs, pending, last, attemptLog, form>>

\* The oldest due timer of the page fires
PageTimerFires ==
  /\ ReadyPageTimers # <<>>
  /\ LET t == Head(ReadyPageTimers)
         p == clearTimeout(page, t.id)
     IN  page' = CASE t.kind = "fallback" -> fallbackCallback(p, now)
                   [] t.kind = "reveal" -> revealCallback(p, now)
                   [] t.kind = "remove" -> removeCallback(p)
                   [] t.kind = "resize" -> resizeCallback(p)
  /\ UNCHANGED <<now, rate, subs, pending, last, attemptLog, form>>

\* Time moves to the next instant a timer of the page is due at
PageAdvance ==
  /\ page.timers # <<>>
  /\ \A i \in DOMAIN page.timers : page.timers[i].due > now
  /\ now' = CHOOSE d \in {page.timers[i].due : i \in DOMAIN page.timers} :
              \A i \in DOMAIN page.timers : d <= page.timers[i].due
  /\ UNCHANGED <<rate, subs, pending, last, attemptLog, form, page>>

PageResize == \E wide \in BOOLEAN : Resize(wide)

NextPage ==
  DOMContentLoaded \/ FontsReady \/ VisibilityChange \/ PageResize \/ Frame
    \/ PageTimerFires \/ PageAdvance

SpecPage == InitPage /\ [][NextPage]_vars

\* Timers that are due fire, and time does not stop
SpecPageLive == SpecPage /\ WF_vars(PageTimerFires) /\ WF_vars(PageAdvance)

----------------------------------------------------------------------------
\* C29: the loading screen cannot hang and is dismissed once.  The reveal
\* sequence is never scheduled more than once, and when timers that are due
\* fire it is scheduled once and carried out: from some moment on isLoaded
\* is true, the loading screen is hidden and the main content is marked
\* loaded, also when document.fonts.ready never resolves.
C29_RevealScheduledExactlyOnce ==
  /\ [](page.reveals <= 1)
  /\ <>[](/\ page.reveals = 1
          /\ page.isLoaded
          /\ page.screenHidden
          /\ page.contentLoaded
          /\ page.screenRemoved)

\* C29 witness: the fonts never became ready, the fallback timeout
\* scheduled the reveal sequence, which has hidden the loading screen.
C29_Witness ==
  /\ ~page.fontsReady
  /\ page.reveals = 1
  /\ page.screenHidden
  /\ page.contentLoaded
  /\ now = LOADING_DURATION * 2 + LOADING_DURATION

\* C30 (as claimed): at most one chain of requestAnimationFrame callbacks
\* is active at any time.
C30_OneAnimationLoop == Cardinality(page.frames) <= 1

====
